---- MODULE Spec2Model ----
(***************************************************************************)
(* Model of the v2 speech-to-text Recognizer                               *)
(* (src/src/speechtotext/recognizer_v2.rs) and of the way the streaming    *)
(* example (src/examples/sankar.rs) drives it: the session factory, the    *)
(* bounded outbound channel (audio sink), the duplex driving call, the     *)
(* pull stream, and the bounded result channel.                            *)
(***************************************************************************)
EXTENDS Integers, Sequences, FiniteSets, TLC

\* ------------------------------------------------------------------ bounds
\* Largest buffer_size a caller passes for the outbound channel (0 is passed
\* too).
MaxBuffer == 2
\* Largest buffer_size a caller passes for a result channel.
MaxResultBuffer == 1
\* Number of data messages the callers send in one run.
MaxData == 2
\* Number of producer handles handed out to callers in one run.
MaxHandles == 2
\* Number of inbound messages the remote service produces in one run.
MaxInbound == 2
\* Number of calls to get_streaming_result_receiver in one run.
MaxReceivers == 2

\* ------------------------------------------------------- program constants
\* buffer_size.unwrap_or(1000)
DefaultBufferSize == 1000

\* ------------------------------------------------------------------ values
\* Option<usize> values the callers pass as buffer_size: {} is None, {n} is
\* Some(n)
BufferSizes == {{}} \cup {{n} : n \in 0 .. MaxBuffer}
ResultBufferSizes == {{}} \cup {{n} : n \in 1 .. MaxResultBuffer}
\* StreamingRequest::StreamingConfig(config): the first outbound item
Config == <<0, 0>>
\* no item in hand
NoItem == <<>>
Handles == 1 .. MaxHandles
Chans == 1 .. MaxReceivers

VARIABLES
    session,          \* "none", "alive", "failed", "panicked", "dropped"
    ctorError,        \* which step of the constructor returned the error
    channelAttempts,  \* calls made to new_grpc_channel
    tokenAttempts,    \* calls made to get_token
    cap,              \* capacity of the outbound channel
    lastSync,         \* what the last recognize returned: "none", "Ok", "Err"
    audio_sender,     \* Recognizer.audio_sender is Some
    audio_receiver,   \* "none", "session", "transport", "dropped"
    result_sender,    \* 0 (None) or the result channel whose sender is stored
    audioQ,           \* items buffered in the outbound channel
    handles,          \* caller-side producer handle slots: "free", "held"
    pending,          \* the item of a suspended send, per handle
    waiters,          \* handles with a suspended send, in arrival order
    rejected,         \* items handed back by failed sends
    nextData,         \* data messages created so far
    sent,             \* items accepted by the outbound channel, in order
    wire,             \* outbound items the transport has observed, in order
    eoi,              \* the transport has observed end-of-input
    rpcCount,         \* duplex RPCs issued
    rpc,              \* "none", "pending", "failed", "open", "closed", "error"
    inflight,         \* inbound messages not yet read from the response stream
    emitted,          \* inbound messages the remote has produced
    borrow,           \* which call holds &mut self: "none", "duplex", "stream"
    duplexPc,         \* streaming_recognize: "idle", "rpc", "loop", "fwd"
    inhand,           \* the message streaming_recognize is forwarding (0: none)
    lastResult,       \* what the last streaming_recognize returned
    received,         \* <<message, result_sender>> per message the loop read
    resQ,             \* items buffered in each result channel
    resCap,           \* capacity of the result channel of result_sender
    resRx,            \* each result receiver: "none", "alive", "dropped"
    read,             \* what the caller has read from each result receiver
    nChans,           \* result channels created
    streamPc,         \* pull stream: "none", "created", "rpc", "loop", "ended"
    yielded,          \* what the pull stream has yielded, in order
    droppedUnpolled   \* a pull stream has been dropped before its first poll

sessVars == <<session, ctorError, channelAttempts, tokenAttempts, cap, lastSync>>
fieldVars == <<audio_sender, audio_receiver, result_sender>>
sinkVars == <<audioQ, handles, pending, waiters, rejected, nextData, sent>>
netVars == <<wire, eoi, rpcCount, rpc, inflight, emitted>>
driveVars == <<borrow, duplexPc, inhand, lastResult, received>>
resVars == <<resQ, resCap, resRx, read, nChans>>
pullVars == <<streamPc, yielded, droppedUnpolled>>
vars == <<sessVars, fieldVars, sinkVars, netVars, driveVars, resVars, pullVars>>

\* ------------------------------------------------------ bounded channels
\* buffer_size.unwrap_or(1000)
UnwrapOr(bs, d) == IF bs = {} THEN d ELSE CHOOSE n \in bs : TRUE

\* the channel has room only below capacity minus one
HasRoomOffByOne(q, c) == Len(q) + 1 < c

\* the channel accepts one item beyond its capacity
HasRoomOverfill(q, c) == Len(q) <= c

\* a bounded channel has a free slot
HasRoom(q, c) == Len(q) < c

\* an accepted item goes to the front of the channel
PushFront(q, m) == <<m>> \o q

\* an accepted item goes to the back of the channel
Push(q, m) == Append(q, m)

\* the channel counts only the caller-held handles as senders
NoSendersCallerOnly == \A h \in Handles : handles[h] # "held"

\* every producer handle of the outbound channel has been dropped
NoSenders == ~audio_sender /\ \A h \in Handles : handles[h] # "held"

\* a send never finds the receiving half gone
ReceiverAliveAlways == TRUE

\* the receiving half of the outbound channel is alive
ReceiverAlive == audio_receiver \in {"session", "transport"}

Init ==
    /\ session = "none"
    /\ ctorError = "none"
    /\ channelAttempts = 0
    /\ tokenAttempts = 0
    /\ cap = 0
    /\ lastSync = "none"
    /\ audio_sender = FALSE
    /\ audio_receiver = "none"
    /\ result_sender = 0
    /\ audioQ = <<>>
    /\ handles = [h \in Handles |-> "free"]
    /\ pending = [h \in Handles |-> NoItem]
    /\ waiters = <<>>
    /\ rejected = {}
    /\ nextData = 0
    /\ sent = <<>>
    /\ wire = <<>>
    /\ eoi = FALSE
    /\ rpcCount = 0
    /\ rpc = "none"
    /\ inflight = <<>>
    /\ emitted = 0
    /\ borrow = "none"
    /\ duplexPc = "idle"
    /\ inhand = 0
    /\ lastResult = "none"
    /\ received = <<>>
    /\ resQ = [c \in Chans |-> <<>>]
    /\ resCap = 0
    /\ resRx = [c \in Chans |-> "none"]
    /\ read = [c \in Chans |-> <<>>]
    /\ nChans = 0
    /\ streamPc = "none"
    /\ yielded = <<>>
    /\ droppedUnpolled = FALSE

\* ------------------------------------------------------- session factory
\* what the constructor leaves behind when a step returns an error
CtorFailed(step, chan, tok) ==
    [state |-> "failed", error |-> step, chan |-> chan, tok |-> tok,
     cap |-> 0, q |-> <<>>]

\* the constructor with the Configuration message never enqueued
CtorEnqueueNothing(bs) ==
    [state |-> "alive", error |-> "none", chan |-> 1, tok |-> 1,
     cap |-> UnwrapOr(bs, DefaultBufferSize), q |-> <<>>]

\* mpsc::channel(buffer_size.unwrap_or(1000)) and the send of the
\* Configuration message: the channel constructor panics on capacity 0, the
\* send completes when the channel has room and suspends otherwise.
CtorEnqueue(bs) ==
    IF UnwrapOr(bs, DefaultBufferSize) = 0
    THEN [state |-> "panicked", error |-> "none", chan |-> 1, tok |-> 1,
          cap |-> 0, q |-> <<>>]
    ELSE IF HasRoom(<<>>, UnwrapOr(bs, DefaultBufferSize))
    THEN [state |-> "alive", error |-> "none", chan |-> 1, tok |-> 1,
          cap |-> UnwrapOr(bs, DefaultBufferSize), q |-> Push(<<>>, Config)]
    ELSE [state |-> "suspended", error |-> "none", chan |-> 1, tok |-> 1,
          cap |-> UnwrapOr(bs, DefaultBufferSize), q |-> <<>>]

\* the constructor with the token resolved before the channel is established
CtorTokenFirst(chanOk, tokOk, bs) ==
    IF ~tokOk THEN CtorFailed("token", 0, 1)
    ELSE IF ~chanOk THEN CtorFailed("channel", 1, 1)
    ELSE CtorEnqueue(bs)

\* The steps of create_streaming_recognizer in the order the code runs them:
\* new_grpc_channel(..).await?, get_token(..)?, the channel and the send.
\* Each "?" returns the error and skips what follows.
CtorSteps(chanOk, tokOk, bs) ==
    IF ~chanOk THEN CtorFailed("channel", 1, 0)
    ELSE IF ~tokOk THEN CtorFailed("token", 1, 1)
    ELSE CtorEnqueue(bs)

CreateStreamingRecognizer(chanOk, tokOk, bs) ==
    /\ session = "none"
    /\ LET r == CtorSteps(chanOk, tokOk, bs) IN
        /\ session' = r.state
        /\ ctorError' = r.error
        /\ channelAttempts' = channelAttempts + r.chan
        /\ tokenAttempts' = tokenAttempts + r.tok
        /\ cap' = r.cap
        /\ audioQ' = r.q
        /\ audio_sender' = (r.state = "alive")
        /\ audio_receiver' = IF r.state = "alive" THEN "session" ELSE "none"
        /\ result_sender' = 0
    /\ UNCHANGED <<handles, pending, waiters, rejected, nextData, sent>>
    /\ UNCHANGED <<lastSync, netVars, driveVars, resVars, pullVars>>

\* The steps of create_synchronous_recognizer: new_grpc_channel(..).await?,
\* get_token(..)?, then a Recognizer with no outbound channel.
SyncCtorSteps(chanOk, tokOk) ==
    IF ~chanOk THEN CtorFailed("channel", 1, 0)
    ELSE IF ~tokOk THEN CtorFailed("token", 1, 1)
    ELSE [state |-> "alive", error |-> "none", chan |-> 1, tok |-> 1,
          cap |-> 0, q |-> <<>>]

\* create_synchronous_recognizer: audio_sender, audio_receiver and
\* result_sender are all None
CreateSynchronousRecognizer(chanOk, tokOk) ==
    /\ session = "none"
    /\ LET r == SyncCtorSteps(chanOk, tokOk) IN
        /\ session' = r.state
        /\ ctorError' = r.error
        /\ channelAttempts' = channelAttempts + r.chan
        /\ tokenAttempts' = tokenAttempts + r.tok
        /\ cap' = r.cap
        /\ audioQ' = r.q
    /\ audio_sender' = FALSE
    /\ audio_receiver' = "none"
    /\ result_sender' = 0
    /\ UNCHANGED <<handles, pending, waiters, rejected, nextData, sent>>
    /\ UNCHANGED <<lastSync, netVars, driveVars, resVars, pullVars>>

\* ------------------------------------------------- producer handle access
\* a method taking &mut self can be called: the Session exists and no
\* driving call or pull stream holds the mutable borrow
Callable == session = "alive" /\ borrow = "none"

\* the first caller-side handle slot not used yet
FreeHandle == CHOOSE h \in Handles : handles[h] = "free" /\
                  \A g \in Handles : handles[g] = "free" => h <= g

\* what get_audio_sink leaves in self.audio_sender: the sender is cloned
SenderAfterGet(s) == s

\* the sender is handed out and also left in the field
SenderKept(s) == s

\* what take_audio_sink leaves in self.audio_sender: Option::take
SenderAfterTake(s) == FALSE

\* get_audio_sink: Some(clone of the sender) or None
GetAudioSink ==
    /\ Callable
    /\ audio_sender => \E h \in Handles : handles[h] = "free"
    /\ handles' = IF audio_sender
                  THEN [handles EXCEPT ![FreeHandle] = "held"]
                  ELSE handles
    /\ audio_sender' = SenderAfterGet(audio_sender)
    /\ UNCHANGED <<audio_receiver, result_sender>>
    /\ UNCHANGED <<audioQ, pending, waiters, rejected, nextData, sent>>
    /\ UNCHANGED <<sessVars, netVars, driveVars, resVars, pullVars>>

\* take_audio_sink: Some(the sender itself) or None; leaves None behind
TakeAudioSink ==
    /\ Callable
    /\ audio_sender => \E h \in Handles : handles[h] = "free"
    /\ handles' = IF audio_sender
                  THEN [handles EXCEPT ![FreeHandle] = "held"]
                  ELSE handles
    /\ audio_sender' = SenderAfterTake(audio_sender)
    /\ UNCHANGED <<audio_receiver, result_sender>>
    /\ UNCHANGED <<audioQ, pending, waiters, rejected, nextData, sent>>
    /\ UNCHANGED <<sessVars, netVars, driveVars, resVars, pullVars>>

\* a drop_audio_sink that closes the channel under the handles handed out
DropAudioSinkClosing ==
    /\ Callable
    /\ audio_sender' = FALSE
    /\ handles' = [h \in Handles |-> IF pending[h] = NoItem THEN "free"
                                     ELSE handles[h]]
    /\ UNCHANGED <<audio_receiver, result_sender>>
    /\ UNCHANGED <<audioQ, pending, waiters, rejected, nextData, sent>>
    /\ UNCHANGED <<sessVars, netVars, driveVars, resVars, pullVars>>

\* drop_audio_sink: self.audio_sender.take(), the sender, if there was one,
\* is dropped
DropAudioSink ==
    /\ Callable
    /\ audio_sender' = SenderAfterTake(audio_sender)
    /\ UNCHANGED <<audio_receiver, result_sender>>
    /\ UNCHANGED <<sinkVars, sessVars, netVars, driveVars, resVars, pullVars>>

\* ------------------------------------------------------------ caller sends
\* the data item a handle sends: Recognizer::streaming_request_from_bytes
DataItem(h, n) == <<h, n>>

\* audio_sender.send(item).await on a caller-held handle: the item is
\* handed back when the receiver is gone, accepted when the channel has room
\* and nobody waits in front, and the send suspends otherwise.
Send(h) ==
    /\ handles[h] = "held"
    /\ pending[h] = NoItem
    /\ nextData < MaxData
    /\ nextData' = nextData + 1
    /\ LET m == DataItem(h, nextData + 1) IN
        IF ~ReceiverAlive
        THEN /\ rejected' = rejected \cup {m}
             /\ UNCHANGED <<audioQ, pending, waiters, sent>>
        ELSE IF HasRoom(audioQ, cap) /\ waiters = <<>>
        THEN /\ audioQ' = Push(audioQ, m)
             /\ sent' = Append(sent, m)
             /\ UNCHANGED <<pending, waiters, rejected>>
        ELSE /\ pending' = [pending EXCEPT ![h] = m]
             /\ waiters' = Append(waiters, h)
             /\ UNCHANGED <<audioQ, rejected, sent>>
    /\ UNCHANGED <<handles>>
    /\ UNCHANGED <<sessVars, fieldVars, netVars, driveVars, resVars, pullVars>>

\* a suspended send is woken: the first waiter gets the freed slot, or every
\* waiter gets its item back once the receiver is gone
SendResume(h) ==
    /\ pending[h] # NoItem
    /\ IF ~ReceiverAlive
       THEN /\ rejected' = rejected \cup {pending[h]}
            /\ waiters' = SelectSeq(waiters, LAMBDA g : g # h)
            /\ UNCHANGED <<audioQ, sent>>
       ELSE /\ waiters # <<>>
            /\ Head(waiters) = h
            /\ HasRoom(audioQ, cap)
            /\ audioQ' = Push(audioQ, pending[h])
            /\ sent' = Append(sent, pending[h])
            /\ waiters' = Tail(waiters)
            /\ UNCHANGED rejected
    /\ pending' = [pending EXCEPT ![h] = NoItem]
    /\ UNCHANGED <<handles, nextData>>
    /\ UNCHANGED <<sessVars, fieldVars, netVars, driveVars, resVars, pullVars>>

\* the caller drops a producer handle (its task is not suspended in a send)
DropHandle(h) ==
    /\ handles[h] = "held"
    /\ pending[h] = NoItem
    /\ handles' = [handles EXCEPT ![h] = "free"]
    /\ UNCHANGED <<audioQ, pending, waiters, rejected, nextData, sent>>
    /\ UNCHANGED <<sessVars, fieldVars, netVars, driveVars, resVars, pullVars>>

\* ---------------------------------------------------------- result channel
\* get_streaming_result_receiver: a fresh channel whose sender replaces
\* self.result_sender (the sender stored before is dropped)
GetStreamingResultReceiver(bs) ==
    /\ Callable
    /\ nChans < MaxReceivers
    /\ nChans' = nChans + 1
    /\ result_sender' = nChans + 1
    /\ resCap' = UnwrapOr(bs, DefaultBufferSize)
    /\ resRx' = [resRx EXCEPT ![nChans + 1] = "alive"]
    /\ UNCHANGED <<audio_sender, audio_receiver, resQ, read>>
    /\ UNCHANGED <<sessVars, sinkVars, netVars, driveVars, pullVars>>

\* the sender is dropped with the driving call that used it
ResultSenderAliveWhileRunning(c) == result_sender = c /\ duplexPc # "idle"

\* the sending half of result channel c is alive: it is stored in a Session
\* that has not been discarded
ResultSenderAlive(c) == result_sender = c

\* result_receiver.recv().await returns None: the channel is empty and its
\* sender has been dropped
RecvSeesEnd(c) == resRx[c] = "alive" /\ resQ[c] = <<>> /\ ~ResultSenderAlive(c)

\* result_receiver.recv().await returns the next buffered item
ResultRecv(c) ==
    /\ resRx[c] = "alive"
    /\ resQ[c] # <<>>
    /\ read' = [read EXCEPT ![c] = Append(read[c], Head(resQ[c]))]
    /\ resQ' = [resQ EXCEPT ![c] = Tail(resQ[c])]
    /\ UNCHANGED <<resCap, resRx, nChans>>
    /\ UNCHANGED <<sessVars, fieldVars, sinkVars, netVars, driveVars, pullVars>>

\* the caller drops a result receiver whose sender is alive; what it buffered
\* is dropped with it (dropping the receiver of a channel whose sender is
\* gone changes nothing the program can observe)
ResultDrop(c) ==
    /\ resRx[c] = "alive"
    /\ ResultSenderAlive(c)
    /\ resRx' = [resRx EXCEPT ![c] = "dropped"]
    /\ resQ' = [resQ EXCEPT ![c] = <<>>]
    /\ read' = [read EXCEPT ![c] = <<>>]
    /\ UNCHANGED <<resCap, nChans>>
    /\ UNCHANGED <<sessVars, fieldVars, sinkVars, netVars, driveVars, pullVars>>

\* ------------------------------------------------------------ driving call
\* the receiver is looked at and left in the field
ReceiverKept(r) == r

\* what self.audio_receiver.take() leaves in the field once the receiver has
\* been moved into the request stream of the RPC
ReceiverAfterTake(r) == "transport"

\* a streaming Session was built, whether or not its receiver is still there
ReceiverEverPresent == audio_receiver # "none"

\* if let Some(audio_receiver) = self.audio_receiver.take()
ReceiverPresent == audio_receiver = "session"

\* the receiver is dropped with any call, whether or not it was taken
ReceiverDroppedWithCall(r) == "dropped"

\* the receiver of the outbound channel once the call that owns the request
\* stream is over: it is dropped with the call, and what it buffered with it
ReceiverAfterCall(r) == IF r = "transport" THEN "dropped" ELSE r

\* the drive loop forwards to the first result channel ever created
ForwardToFirst == IF nChans > 0 THEN 1 ELSE 0

\* the result channel the drive loop forwards to: &self.result_sender
ForwardTarget == result_sender

\* the forwarded item goes to the front of the channel
DeliverFront(q, m) == <<m>> \o q

\* result_sender.send(response): the item goes to the back of the channel
Deliver(q, m) == Append(q, m)

\* the drive loop returns Ok(()) whatever ended the response stream
LoopResultSwallow(r) == "Ok"

\* the drive loop returns an error whatever ended the response stream
LoopResultAlwaysErr(r) == "Err"

\* what the drive loop returns once response_stream.message().await? gives no
\* further message: Ok(()) after the end of the stream, the error otherwise
LoopResult(r) == IF r = "closed" THEN "Ok" ELSE "Err"

\* a send to a result channel succeeds even when its receiver is gone
ResultReceiverNeverGone(c) == FALSE

\* result_sender.send(..) fails: the receiver of the channel has been dropped
ResultReceiverGone(c) == resRx[c] = "dropped"

\* streaming_recognize returns res: the borrow ends, the response stream and
\* the request stream of the call are dropped
DuplexReturn(res) ==
    /\ duplexPc' = "idle"
    /\ borrow' = "none"
    /\ inhand' = 0
    /\ lastResult' = res
    /\ rpc' = IF rpc = "pending" THEN "failed" ELSE rpc
    /\ audio_receiver' = ReceiverAfterCall(audio_receiver)
    /\ audioQ' = <<>>
    /\ UNCHANGED <<audio_sender, result_sender>>
    /\ UNCHANGED <<handles, pending, waiters, rejected, nextData, sent>>
    /\ UNCHANGED <<wire, eoi, rpcCount, emitted>>
    /\ UNCHANGED <<sessVars, pullVars>>

\* streaming_recognize up to its first await: the receiver is taken and the
\* duplex RPC issued, or, with no receiver in the field, Ok(()) is returned
StreamingRecognize ==
    /\ Callable
    /\ IF ReceiverPresent
       THEN /\ audio_receiver' = ReceiverAfterTake(audio_receiver)
            /\ rpcCount' = rpcCount + 1
            /\ rpc' = "pending"
            /\ borrow' = "duplex"
            /\ duplexPc' = "rpc"
            /\ UNCHANGED lastResult
       ELSE /\ lastResult' = "Ok"
            /\ UNCHANGED <<audio_receiver, rpcCount, rpc, borrow, duplexPc>>
    /\ UNCHANGED <<audio_sender, result_sender, inhand, received>>
    /\ UNCHANGED <<wire, eoi, inflight, emitted>>
    /\ UNCHANGED <<sessVars, sinkVars, resVars, pullVars>>

\* self.speech_client.streaming_recognize(..).await and the "?" on its result
DuplexRpcReturn(ok) ==
    /\ duplexPc = "rpc"
    /\ rpc = "pending"
    /\ IF ok
       THEN /\ rpc' = "open"
            /\ duplexPc' = "loop"
            /\ UNCHANGED <<borrow, inhand, lastResult>>
            /\ UNCHANGED <<fieldVars, sinkVars, sessVars, pullVars>>
            /\ UNCHANGED <<wire, eoi, rpcCount, emitted>>
       ELSE DuplexReturn("Err")
    /\ UNCHANGED <<inflight, received, resVars>>

\* One turn of the drive loop. response_stream.message().await? gives the
\* next inbound message, the end of the response stream (the loop is left,
\* Ok(())) or a transport error. A message is forwarded only if
\* self.result_sender is Some: result_sender.send(response).await? buffers it
\* when the result channel has room, fails (the call returns the error) when
\* the result receiver has been dropped, and suspends while the channel is
\* full.
DuplexRecv ==
    /\ duplexPc = "loop"
    /\ IF inflight # <<>>
       THEN /\ inflight' = Tail(inflight)
            /\ received' = Append(received, <<Head(inflight), result_sender>>)
            /\ IF result_sender = 0
               THEN /\ UNCHANGED <<duplexPc, inhand, resQ>>
                    /\ UNCHANGED <<borrow, lastResult, rpc>>
                    /\ UNCHANGED <<fieldVars, sinkVars, sessVars, pullVars>>
                    /\ UNCHANGED <<wire, eoi, rpcCount, emitted>>
               ELSE IF ResultReceiverGone(ForwardTarget)
               THEN /\ DuplexReturn("Err")
                    /\ UNCHANGED resQ
               ELSE /\ IF HasRoom(resQ[ForwardTarget], resCap)
                       THEN /\ resQ' = [resQ EXCEPT ![ForwardTarget] =
                                   Deliver(resQ[ForwardTarget], Head(inflight))]
                            /\ UNCHANGED <<duplexPc, inhand>>
                       ELSE /\ duplexPc' = "fwd"
                            /\ inhand' = Head(inflight)
                            /\ UNCHANGED resQ
                    /\ UNCHANGED <<borrow, lastResult, rpc>>
                    /\ UNCHANGED <<fieldVars, sinkVars, sessVars, pullVars>>
                    /\ UNCHANGED <<wire, eoi, rpcCount, emitted>>
       ELSE /\ rpc \in {"closed", "error"}
            /\ DuplexReturn(LoopResult(rpc))
            /\ UNCHANGED <<inflight, received, resQ>>
    /\ UNCHANGED <<resCap, resRx, read, nChans>>

\* a suspended result_sender.send(response).await? is woken: the caller has
\* made room, or has dropped the result receiver (the call returns the error)
DuplexForward ==
    /\ duplexPc = "fwd"
    /\ IF ResultReceiverGone(ForwardTarget)
       THEN /\ DuplexReturn("Err")
            /\ UNCHANGED resVars
       ELSE /\ HasRoom(resQ[ForwardTarget], resCap)
            /\ resQ' = [resQ EXCEPT
                          ![ForwardTarget] = Deliver(resQ[ForwardTarget], inhand)]
            /\ duplexPc' = "loop"
            /\ inhand' = 0
            /\ UNCHANGED <<resCap, resRx, read, nChans>>
            /\ UNCHANGED <<borrow, lastResult, rpc>>
            /\ UNCHANGED <<fieldVars, sinkVars, sessVars, pullVars>>
            /\ UNCHANGED <<wire, eoi, rpcCount, emitted>>
    /\ UNCHANGED <<inflight, received>>

\* ------------------------------------------------- transport and remote
\* the call that owns the request stream is still running
CallAlive == audio_receiver = "transport"

\* the transport polls the request stream (ReceiverStream) and sends the item
TransportPull ==
    /\ audio_receiver = "transport"
    /\ audioQ # <<>>
    /\ wire' = Append(wire, Head(audioQ))
    /\ audioQ' = Tail(audioQ)
    /\ UNCHANGED <<eoi, rpcCount, rpc, inflight, emitted>>
    /\ UNCHANGED <<handles, pending, waiters, rejected, nextData, sent>>
    /\ UNCHANGED <<sessVars, fieldVars, driveVars, resVars, pullVars>>

\* the request stream ends: the channel is empty and has no sender left
TransportEoi ==
    /\ audio_receiver = "transport"
    /\ audioQ = <<>>
    /\ NoSenders
    /\ ~eoi
    /\ eoi' = TRUE
    /\ UNCHANGED <<wire, rpcCount, rpc, inflight, emitted>>
    /\ UNCHANGED <<sessVars, fieldVars, sinkVars, driveVars, resVars, pullVars>>

\* the remote service sends a response
RemoteRespond ==
    /\ CallAlive
    /\ rpc = "open"
    /\ emitted < MaxInbound
    /\ emitted' = emitted + 1
    /\ inflight' = Append(inflight, emitted + 1)
    /\ UNCHANGED <<wire, eoi, rpcCount, rpc>>
    /\ UNCHANGED <<sessVars, fieldVars, sinkVars, driveVars, resVars, pullVars>>

\* the remote service closes the response stream
RemoteClose ==
    /\ CallAlive
    /\ rpc = "open"
    /\ rpc' = "closed"
    /\ UNCHANGED <<wire, eoi, rpcCount, inflight, emitted>>
    /\ UNCHANGED <<sessVars, fieldVars, sinkVars, driveVars, resVars, pullVars>>

\* the response stream ends with an error status
RemoteError ==
    /\ CallAlive
    /\ rpc = "open"
    /\ rpc' = "error"
    /\ UNCHANGED <<wire, eoi, rpcCount, inflight, emitted>>
    /\ UNCHANGED <<sessVars, fieldVars, sinkVars, driveVars, resVars, pullVars>>

\* ------------------------------------------------------------- pull stream
\* streaming_recognize_async_stream: the stream is returned, nothing runs yet
StreamCreate ==
    /\ Callable
    /\ streamPc = "none"
    /\ streamPc' = "created"
    /\ borrow' = "stream"
    /\ UNCHANGED <<duplexPc, inhand, lastResult, received, yielded>>
    /\ UNCHANGED droppedUnpolled
    /\ UNCHANGED <<sessVars, fieldVars, sinkVars, netVars, resVars>>

\* the stream is over: the response and request streams of its call are
\* dropped
StreamOver ==
    /\ rpc' = IF rpc = "pending" THEN "failed" ELSE rpc
    /\ audio_receiver' = ReceiverAfterCall(audio_receiver)
    /\ audioQ' = IF audio_receiver = "transport" THEN <<>> ELSE audioQ

\* the items of the stream: yield response, and the error a "?" ends it with
YieldOk(m) == <<"Ok", m>>

YieldErr == <<"Err", 0>>

\* the caller polls the stream: the body of try_stream! runs to its next
\* await, yield or end
StreamPoll(ok) ==
    /\ streamPc \in {"created", "rpc", "loop"}
    /\ IF streamPc = "created"
       THEN IF ReceiverPresent
            THEN /\ audio_receiver' = ReceiverAfterTake(audio_receiver)
                 /\ rpcCount' = rpcCount + 1
                 /\ rpc' = "pending"
                 /\ streamPc' = "rpc"
                 /\ UNCHANGED <<audioQ, inflight, yielded>>
            ELSE /\ streamPc' = "ended"
                 /\ UNCHANGED <<audio_receiver, rpcCount, rpc, audioQ,
                                inflight, yielded>>
       ELSE IF streamPc = "rpc"
       THEN /\ rpc = "pending"
            /\ IF ok
               THEN /\ rpc' = "open"
                    /\ streamPc' = "loop"
                    /\ UNCHANGED <<audio_receiver, audioQ, yielded>>
               ELSE /\ StreamOver
                    /\ streamPc' = "ended"
                    /\ yielded' = Append(yielded, YieldErr)
            /\ UNCHANGED <<rpcCount, inflight>>
       ELSE /\ IF inflight # <<>>
               THEN /\ inflight' = Tail(inflight)
                    /\ yielded' = Append(yielded, YieldOk(Head(inflight)))
                    /\ UNCHANGED <<streamPc, rpc, audio_receiver, audioQ>>
               ELSE /\ rpc \in {"closed", "error"}
                    /\ StreamOver
                    /\ streamPc' = "ended"
                    /\ yielded' = IF rpc = "error"
                                  THEN Append(yielded, YieldErr) ELSE yielded
                    /\ UNCHANGED inflight
            /\ UNCHANGED rpcCount
    /\ UNCHANGED <<audio_sender, result_sender>>
    /\ UNCHANGED <<handles, pending, waiters, rejected, nextData, sent>>
    /\ UNCHANGED <<wire, eoi, emitted>>
    /\ UNCHANGED <<sessVars, driveVars, resVars, droppedUnpolled>>

\* the caller drops the stream: the borrow ends, and a call it issued is over
StreamDrop ==
    /\ streamPc # "none"
    /\ streamPc' = "none"
    /\ borrow' = "none"
    /\ droppedUnpolled' = (droppedUnpolled \/ streamPc = "created")
    /\ StreamOver
    /\ UNCHANGED <<audio_sender, result_sender>>
    /\ UNCHANGED <<handles, pending, waiters, rejected, nextData, sent>>
    /\ UNCHANGED <<wire, eoi, rpcCount, inflight, emitted>>
    /\ UNCHANGED <<duplexPc, inhand, lastResult, received, yielded>>
    /\ UNCHANGED <<sessVars, resVars>>

\* the caller discards the Session: its fields are dropped
SessionDrop ==
    /\ Callable
    /\ session' = "dropped"
    /\ audio_sender' = FALSE
    /\ audio_receiver' = IF audio_receiver = "session" THEN "dropped"
                         ELSE audio_receiver
    /\ audioQ' = IF audio_receiver = "session" THEN <<>> ELSE audioQ
    /\ result_sender' = 0
    /\ UNCHANGED <<ctorError, channelAttempts, tokenAttempts, cap, lastSync>>
    /\ UNCHANGED <<handles, pending, waiters, rejected, nextData, sent>>
    /\ UNCHANGED <<netVars, driveVars, resVars, pullVars>>

\* ---------------------------------------------------------- synchronous call
\* a recognize that drops the Session's sender on its way
RecognizeDropsSender(ok) ==
    /\ Callable
    /\ lastSync' = IF ok THEN "Ok" ELSE "Err"
    /\ audio_sender' = FALSE
    /\ UNCHANGED <<audio_receiver, result_sender>>
    /\ UNCHANGED <<session, ctorError, channelAttempts, tokenAttempts, cap>>
    /\ UNCHANGED <<sinkVars, netVars, driveVars, resVars, pullVars>>

\* recognize: one request/response call on self.speech_client; the "?" returns
\* the error of a failed call
Recognize(ok) ==
    /\ Callable
    /\ lastSync' = IF ok THEN "Ok" ELSE "Err"
    /\ UNCHANGED <<session, ctorError, channelAttempts, tokenAttempts, cap>>
    /\ UNCHANGED <<fieldVars, sinkVars, netVars, driveVars, resVars, pullVars>>

\* ---------------------------------------------------------- specifications
Factory ==
    \E chanOk \in BOOLEAN, tokOk \in BOOLEAN, bs \in BufferSizes :
        CreateStreamingRecognizer(chanOk, tokOk, bs)

\* the producer handle accessors and the caller dropping what they return
SinkOps ==
    \/ GetAudioSink
    \/ TakeAudioSink
    \/ DropAudioSink
    \/ \E h \in Handles : DropHandle(h)

\* the callers' data production tasks
Sends ==
    \/ \E h \in Handles : Send(h)
    \/ \E h \in Handles : SendResume(h)

\* the result channel and the caller's result consumption task
ResultOps ==
    \/ \E bs \in ResultBufferSizes : GetStreamingResultReceiver(bs)
    \/ \E c \in Chans : ResultRecv(c)
    \/ \E c \in Chans : ResultDrop(c)
    \/ DuplexForward

\* the duplex driving task
Duplex ==
    \/ StreamingRecognize
    \/ \E ok \in BOOLEAN : DuplexRpcReturn(ok)
    \/ DuplexRecv

\* the transport and the remote service
Network ==
    \/ TransportPull
    \/ TransportEoi
    \/ RemoteRespond
    \/ RemoteClose
    \/ RemoteError

\* the synchronous recognizer and the synchronous call
SyncFactory ==
    \E chanOk \in BOOLEAN, tokOk \in BOOLEAN :
        CreateSynchronousRecognizer(chanOk, tokOk)

SyncCall == \E ok \in BOOLEAN : Recognize(ok)

\* the pull stream and its caller
Pull ==
    \/ StreamCreate
    \/ \E ok \in BOOLEAN : StreamPoll(ok)
    \/ StreamDrop

\* every operation of the Recognizer and of its environment
Next ==
    \/ Factory
    \/ SinkOps
    \/ Sends
    \/ ResultOps
    \/ Duplex
    \/ Network
    \/ Pull
    \/ SyncFactory
    \/ SyncCall
    \/ SessionDrop

Spec == Init /\ [][Next]_vars

\* callers that drive the Session with streaming_recognize and never ask for
\* a result receiver: whatever the remote sends is read and discarded
SinkNext ==
    \/ Factory
    \/ SinkOps
    \/ Sends
    \/ Duplex
    \/ Network
    \/ SessionDrop

SinkSpec == Init /\ [][SinkNext]_vars

\* callers that send no audio data and use both driving paths,
\* streaming_recognize and the pull stream, in any order
DriveNext ==
    \/ Factory
    \/ SinkOps
    \/ Duplex
    \/ Network
    \/ Pull
    \/ SessionDrop

DriveSpec == Init /\ [][DriveNext]_vars

\* callers that send no audio data and drive the Session with
\* streaming_recognize: only the Configuration message goes out
ResultNext ==
    \/ Factory
    \/ SinkOps
    \/ ResultOps
    \/ Duplex
    \/ Network
    \/ SessionDrop

ResultSpec == Init /\ [][ResultNext]_vars

\* the example's discipline with a well-behaved remote: the producer handle
\* is taken (never cloned), the RPC is accepted, the remote closes the
\* response stream only after it has observed end-of-input and never fails,
\* and the caller keeps its result receiver
RemoteCloseAfterEoi == eoi /\ RemoteClose

LiveNext ==
    \/ Factory
    \/ TakeAudioSink
    \/ \E h \in Handles : DropHandle(h)
    \/ Sends
    \/ \E bs \in ResultBufferSizes : GetStreamingResultReceiver(bs)
    \/ \E c \in Chans : ResultRecv(c)
    \/ StreamingRecognize
    \/ DuplexRpcReturn(TRUE)
    \/ DuplexRecv
    \/ DuplexForward
    \/ TransportPull
    \/ TransportEoi
    \/ RemoteRespond
    \/ RemoteCloseAfterEoi
    \/ SessionDrop

\* the runtime schedules every task that can run: the transport, the remote,
\* the driving task and the caller's result consumption task
LiveFairness ==
    /\ WF_vars(TransportPull)
    /\ WF_vars(TransportEoi)
    /\ WF_vars(RemoteCloseAfterEoi)
    /\ WF_vars(DuplexRpcReturn(TRUE))
    /\ WF_vars(DuplexRecv)
    /\ WF_vars(DuplexForward)
    /\ \A c \in Chans : WF_vars(ResultRecv(c))

LiveSpec == Init /\ [][LiveNext]_vars /\ LiveFairness

\* callers that hand out producer handles with get_audio_sink and
\* take_audio_sink only (drop_audio_sink is never called), send on them and
\* drive the Session with streaming_recognize
TakeNext ==
    \/ Factory
    \/ GetAudioSink
    \/ TakeAudioSink
    \/ \E h \in Handles : DropHandle(h)
    \/ Sends
    \/ Duplex
    \/ Network
    \/ SessionDrop

TakeSpec == Init /\ [][TakeNext]_vars

\* callers that build either kind of recognizer, call recognize at any point
\* where they hold the Session, and drive a streaming Session with
\* streaming_recognize and a result receiver
SyncNext ==
    \/ Factory
    \/ SyncFactory
    \/ SyncCall
    \/ TakeAudioSink
    \/ \E h \in Handles : DropHandle(h)
    \/ ResultOps
    \/ Duplex
    \/ Network
    \/ SessionDrop

SyncSpec == Init /\ [][SyncNext]_vars

\* callers that hand out producer handles with get_audio_sink only, give up
\* the Session's own sender with drop_audio_sink, send on the clones and
\* drive the Session with streaming_recognize
DropNext ==
    \/ Factory
    \/ GetAudioSink
    \/ DropAudioSink
    \/ \E h \in Handles : DropHandle(h)
    \/ Sends
    \/ Duplex
    \/ Network
    \/ SessionDrop

DropSpec == Init /\ [][DropNext]_vars

\* ------------------------------------------------------------------ claims
IsPrefix(s, t) == Len(s) <= Len(t) /\ SubSeq(t, 1, Len(s)) = s

Range(s) == {s[i] : i \in 1 .. Len(s)}

\* the caller holds no producer handle
NoHandleHeld == \A h \in Handles : handles[h] = "free"

\* C1: the outbound items the transport has observed are always a prefix of
\* the Configuration message followed by the data messages in the order the
\* outbound channel accepted them, and are exactly that sequence once the
\* transport has observed end-of-input: nothing lost, duplicated or reordered.
C1_OutboundOrder ==
    /\ IsPrefix(wire, <<Config>> \o sent)
    /\ eoi => wire = <<Config>> \o sent

C1_Witness ==
    /\ eoi
    /\ Len(sent) = MaxData
    /\ wire = <<Config>> \o sent
    /\ duplexPc = "idle"
    /\ lastResult = "Ok"

\* the taken producer handle has been dropped while streaming_recognize runs
C2_SoleHandleDropped == borrow = "duplex" /\ ~audio_sender /\ NoHandleHeld

\* streaming_recognize has returned Ok after the transport observed
\* end-of-input behind every buffered item and the response stream was drained
C2_Returned ==
    /\ duplexPc = "idle"
    /\ lastResult = "Ok"
    /\ eoi
    /\ wire = <<Config>> \o sent
    /\ inflight = <<>>

\* C2: once streaming_recognize is running and the taken producer handle has
\* been dropped (no sender is left), the transport eventually observes
\* end-of-input after every buffered item, the loop drains the response
\* stream and streaming_recognize returns Ok: it never hangs.
C2_NoHang == C2_SoleHandleDropped ~> C2_Returned

C2_Witness ==
    /\ C2_Returned
    /\ ~audio_sender
    /\ Len(sent) = MaxData
    /\ Len(received) = MaxInbound
    /\ \E c \in Chans : Len(read[c]) = MaxInbound

\* C3: streaming_recognize invoked when the outbound receiver is no longer in
\* the Session returns Ok, issues no RPC and changes no field of the Session.
C3_SecondCallNoop ==
    [][(StreamingRecognize /\ audio_receiver # "session") =>
          /\ lastResult' = "Ok"
          /\ duplexPc' = "idle"
          /\ UNCHANGED <<rpcCount, rpc, borrow, fieldVars, sessVars>>
          /\ UNCHANGED <<wire, eoi, inflight, audioQ>>]_vars

C3_Witness ==
    /\ rpcCount = 1
    /\ rpc \in {"error", "failed"}
    /\ duplexPc = "idle"
    /\ streamPc = "none"
    /\ yielded = <<>>
    /\ lastResult = "Ok"

\* C4 as stated: when token resolution fails, no channel-establishment
\* attempt has been made.
C4_NoChannelAttempt ==
    (session = "failed" /\ ctorError = "token") => channelAttempts = 0

\* C4: when token resolution fails, create_streaming_recognizer returns an
\* error and no Session, after exactly one (successful) call to the channel
\* factory; no outbound channel exists and nothing has been enqueued.
C4_TokenFailure ==
    ctorError = "token" =>
        /\ session = "failed"
        /\ channelAttempts = 1
        /\ tokenAttempts = 1
        /\ ~audio_sender
        /\ audio_receiver = "none"
        /\ audioQ = <<>>
        /\ rpcCount = 0

C4_Witness == session = "failed" /\ ctorError = "token"

\* the outbound receiver is still in the Session: nothing drains the channel
C5_NoConsumer == session = "alive" /\ audio_receiver = "session"

\* C5 as stated: with nothing draining, a send suspends only once C data
\* sends have completed.
C5_SuspendsAfterC == (C5_NoConsumer /\ waiters # <<>>) => Len(sent) = cap

\* every data item created so far is buffered or observed, suspended in a
\* send, or was handed back
C5_Items == {<<h, n>> : h \in Handles, n \in 1 .. nextData}

C5_Conserved ==
    /\ \A m \in Range(sent) \cup rejected
                \cup {pending[h] : h \in {g \in Handles : pending[g] # NoItem}} :
          m \in C5_Items
    /\ Len(sent) + Cardinality(rejected)
          + Cardinality({h \in Handles : pending[h] # NoItem}) = nextData

\* C5: with capacity C and nothing draining, the channel holds the
\* Configuration message and the data items accepted so far, at most C - 1 of
\* them; a send suspends exactly when C - 1 data sends have completed, and no
\* send fails or is dropped.
C5_Backpressure ==
    C5_NoConsumer =>
        /\ audioQ = <<Config>> \o sent
        /\ Len(sent) <= cap - 1
        /\ waiters # <<>> => Len(sent) = cap - 1
        /\ rejected = {}
        /\ C5_Conserved

C5_Witness ==
    /\ C5_NoConsumer
    /\ cap = MaxBuffer
    /\ Len(sent) = MaxBuffer - 1
    /\ waiters # <<>>

\* what a result receiver has been given so far
C6_Given(c) == read[c] \o resQ[c]

\* C6: an inbound message is buffered only in the result channel whose sender
\* the Session stores (the one of the latest get_streaming_result_receiver
\* call), and no message is given to two receivers.
C6_OnlyLatest ==
    /\ [][\A c \in Chans :
            Len(resQ'[c]) > Len(resQ[c]) => c = result_sender]_vars
    /\ [](\A c \in Chans : \A d \in Chans :
            c # d => Range(C6_Given(c)) \cap Range(C6_Given(d)) = {})

C6_Witness ==
    /\ nChans = 2
    /\ result_sender = 2
    /\ resRx[1] = "alive"
    /\ C6_Given(1) = <<>>
    /\ Len(read[2]) = MaxInbound

\* C7: while the Session still stores its own sender (the caller used only
\* get_audio_sink), the transport never observes end-of-input.
C7_IdleInput == audio_sender => ~eoi

C7_Witness ==
    /\ audio_sender
    /\ duplexPc = "loop"
    /\ NoHandleHeld
    /\ Len(sent) = MaxData
    /\ wire = <<Config>> \o sent
    /\ ~eoi

\* the driving state of the Session
DriveState ==
    IF rpcCount = 0 THEN "NotStarted"
    ELSE IF audio_receiver = "transport" THEN "Running"
    ELSE "Finished"

\* C8: the duplex RPC is issued at most once, the driving state only moves
\* NotStarted -> Running -> Finished, and the drive loop and the pull stream
\* are never both active.
C8_DriveOnce ==
    /\ [](rpcCount <= 1)
    /\ [](~(duplexPc # "idle" /\ streamPc # "none"))
    /\ [](audio_receiver = "session" => rpcCount = 0)
    /\ [][DriveState' # DriveState =>
            <<DriveState, DriveState'>> \in
                {<<"NotStarted", "Running">>, <<"Running", "Finished">>}]_vars

C8_Witness ==
    /\ rpcCount = 1
    /\ lastResult = "Ok"
    /\ rpc = "closed"
    /\ streamPc = "ended"
    /\ yielded = <<>>
    /\ received # <<>>

C10_Received(c) ==
    LET for == SelectSeq(received, LAMBDA e : e[2] = c)
    IN [i \in 1 .. Len(for) |-> for[i][1]]

\* the message the drive loop holds in a suspended send to channel c
C10_InHand(c) ==
    IF duplexPc = "fwd" /\ result_sender = c THEN <<inhand>> ELSE <<>>

\* C10: while a result receiver is alive, what the caller has read from it,
\* then what its channel buffers, then the message the loop is forwarding is
\* exactly the sequence the loop received for it: each message once, in
\* receipt order, nothing missing once the loop is over and the channel empty.
C10_InboundOrder ==
    \A c \in Chans :
        resRx[c] = "alive" =>
            /\ read[c] \o resQ[c] \o C10_InHand(c) = C10_Received(c)
            /\ IsPrefix(read[c], C10_Received(c))
            /\ (duplexPc = "idle" /\ resQ[c] = <<>>) => read[c] = C10_Received(c)

C10_Witness ==
    /\ duplexPc = "idle"
    /\ lastResult = "Ok"
    /\ resRx[1] = "alive"
    /\ Len(read[1]) = MaxInbound
    /\ Len(received) = MaxInbound

\* the producer handles the callers hold
C11_Held(hs) == {h \in Handles : hs[h] = "held"}

\* C11: a take_audio_sink call that finds the sender in the Session hands
\* out exactly one handle and leaves none in the Session; from then on the
\* Session never stores a sender again and no call, take_audio_sink or
\* get_audio_sink, hands out a handle.
C11_TakeOnce ==
    [][/\ (TakeAudioSink /\ audio_sender) =>
            /\ ~audio_sender'
            /\ Cardinality(C11_Held(handles')) = Cardinality(C11_Held(handles)) + 1
       /\ (session = "alive" /\ ~audio_sender) =>
            /\ ~audio_sender'
            /\ C11_Held(handles') \subseteq C11_Held(handles)]_vars

C11_Witness ==
    /\ session = "alive"
    /\ ~audio_sender
    /\ audio_receiver = "dropped"
    /\ Cardinality(C11_Held(handles)) = 1
    /\ Cardinality(rejected) = 1

\* the RPC was refused or the response stream ended with an error status
C12_Failed == rpc \in {"failed", "error"}

\* C12: a streaming_recognize call that ends after the RPC was refused or
\* the response stream failed returns Err; the RPC is never issued again;
\* the return leaves the result channels as they were, and once the call is
\* over every live result receiver still gives, read or buffered, exactly
\* the messages the loop received for it, in receipt order.
C12_ErrorReturned ==
    /\ [][(duplexPc # "idle" /\ duplexPc' = "idle" /\ rpc' \in {"failed", "error"})
            => /\ lastResult' = "Err"
               /\ rpcCount' = rpcCount
               /\ resQ' = resQ
               /\ read' = read]_vars
    /\ [](rpcCount <= 1)
    /\ []((C12_Failed /\ duplexPc = "idle") =>
            \A c \in Chans :
                resRx[c] = "alive" => read[c] \o resQ[c] = C10_Received(c))

C12_Witness ==
    /\ rpc = "error"
    /\ duplexPc = "idle"
    /\ lastResult = "Err"
    /\ resRx[1] = "alive"
    /\ read[1] = <<1>>
    /\ resQ[1] = <<2>>

\* the items of the sends that are suspended
C13_Pending(pd) == {pd[h] : h \in {g \in Handles : pd[g] # NoItem}}

\* C13: a send fails only when the outbound receiver has been dropped, which
\* happens only when the driving call is over or the Session was discarded
\* before any driving call; the receiver never comes back, and from then on
\* every send on every handle fails and hands its item back, accepted by
\* nothing. While the receiver is in the Session or in a running call no
\* send fails.
C13_SendFailure ==
    /\ [][rejected' # rejected =>
            /\ audio_receiver = "dropped"
            /\ \E m \in (C5_Items' \cup C13_Pending(pending)) \ rejected :
                    rejected' = rejected \cup {m}
            /\ sent' = sent /\ audioQ' = audioQ]_vars
    /\ [][\A h \in Handles :
            (Send(h) /\ audio_receiver = "dropped") =>
                /\ rejected' = rejected \cup {DataItem(h, nextData')}
                /\ sent' = sent /\ pending' = pending]_vars
    /\ [][audio_receiver = "dropped" => audio_receiver' = "dropped"]_vars
    /\ [](audio_receiver = "dropped" =>
            \/ rpcCount = 1 /\ duplexPc = "idle"
            \/ rpcCount = 0 /\ session = "dropped")
    /\ [](audio_receiver \in {"session", "transport"} => rejected = {})

C13_Witness ==
    /\ audio_receiver = "dropped"
    /\ rpcCount = 1
    /\ Cardinality(rejected) = MaxData
    /\ \A h \in Handles : \E m \in rejected : m[1] = h

\* the positions of the Configuration message in a sequence of outbound items
C14_Configs(s) == {i \in 1 .. Len(s) : s[i] = Config}

\* the outbound items the transport has observed or will observe next
C14_Outbound == wire \o audioQ

\* C14: whatever the interleaving of the writers, the Configuration message
\* is the first item the transport observes and the only Configuration
\* message ever enqueued, every data item is observed at most once, and the
\* items of one writer are observed in the order that writer sent them.
C14_ConfigFirst ==
    /\ wire # <<>> => wire[1] = Config
    /\ Cardinality(C14_Configs(C14_Outbound)) <= 1
    /\ audio_receiver \in {"session", "transport"} =>
            /\ C14_Configs(C14_Outbound) = {1}
            /\ C14_Outbound = <<Config>> \o sent
    /\ \A i \in 1 .. Len(wire) : \A j \in 1 .. Len(wire) :
            (i < j /\ wire[i][1] = wire[j][1]) => wire[i][2] < wire[j][2]

C14_Witness ==
    /\ Len(wire) = 1 + MaxData
    /\ wire[2][1] # wire[3][1]
    /\ audio_sender
    /\ \A h \in Handles : handles[h] = "held"

\* the drive loop is suspended in result_sender.send(..)
C15_Suspended == duplexPc = "fwd"

\* C15: the result channel of the stored sender never holds more than its
\* capacity R; the drive loop suspends in a send exactly when it has a message
\* for a channel that holds R; while it is suspended it reads nothing from
\* the response stream and keeps the message in hand; it leaves the send only
\* by putting that message behind the ones buffered, once the caller has made
\* room, which always happens while the caller keeps reading; no message the
\* loop received is lost.
C15_ResultBackpressure ==
    /\ [](result_sender # 0 => Len(resQ[result_sender]) <= resCap)
    /\ [][(~C15_Suspended /\ C15_Suspended') =>
            /\ Len(resQ[result_sender]) = resCap
            /\ resQ' = resQ
            /\ inhand' = Head(inflight)]_vars
    /\ [][(C15_Suspended /\ C15_Suspended') =>
            /\ received' = received
            /\ inhand' = inhand
            /\ IsPrefix(inflight, inflight')]_vars
    /\ [][(C15_Suspended /\ ~C15_Suspended') =>
            /\ Len(resQ[result_sender]) < resCap
            /\ resQ'[result_sender] = Append(resQ[result_sender], inhand)
            /\ received' = received /\ inflight' = inflight]_vars
    /\ [](\A c \in Chans :
            resRx[c] = "alive" =>
                read[c] \o resQ[c] \o C10_InHand(c) = C10_Received(c))
    /\ (C15_Suspended ~> ~C15_Suspended)

C15_Witness ==
    /\ C15_Suspended
    /\ result_sender = 1
    /\ resCap = MaxResultBuffer
    /\ Len(resQ[1]) = MaxResultBuffer
    /\ read[1] = <<>>
    /\ inhand = MaxResultBuffer + 1
    /\ rpc = "open"

\* C16 as stated: recognize can be invoked in every state of a Session.
C16_EveryState == session = "alive" => ENABLED SyncCall

\* C16: recognize can be invoked whenever the Session exists and no driving
\* call or pull stream holds its mutable borrow, on a synchronous recognizer
\* as well as on a streaming one before and after the driving call; whether
\* it returns Ok or Err, it changes none of audio_sender, audio_receiver and
\* result_sender, nothing in the two channels, and nothing of the duplex call.
C16_SyncIndependent ==
    /\ [][lastSync' # lastSync =>
            /\ UNCHANGED <<fieldVars, sinkVars, netVars, driveVars, resVars>>
            /\ UNCHANGED <<pullVars, session, cap>>]_vars
    /\ []((session = "alive" /\ borrow = "none") <=> ENABLED SyncCall)
    /\ [](lastSync # "none" => session \in {"alive", "dropped"})

C16_Witness ==
    /\ session = "alive"
    /\ lastSync = "Err"
    /\ audio_sender
    /\ audio_receiver = "dropped"
    /\ rpcCount = 1
    /\ result_sender = 1
    /\ resQ[1] # <<>>

\* get_streaming_result_receiver has never been called on the Session
C17_NoReceiver == nChans = 0

\* C17: on a Session whose get_streaming_result_receiver was never called,
\* every message the drive loop reads is read with no result sender stored
\* and buffered nowhere, the loop never suspends in a forward, it returns only
\* when the response stream has nothing left to read, and it returns Ok when
\* the remote closed the stream.
C17_Discard ==
    /\ [](C17_NoReceiver =>
            /\ result_sender = 0
            /\ \A c \in Chans : resQ[c] = <<>> /\ read[c] = <<>>
            /\ \A i \in 1 .. Len(received) : received[i] = <<i, 0>>
            /\ duplexPc # "fwd" /\ inhand = 0)
    /\ [][(C17_NoReceiver /\ duplexPc = "loop" /\ duplexPc' = "idle") =>
            /\ inflight = <<>>
            /\ Len(received) = emitted
            /\ rpc = "closed" => lastResult' = "Ok"
            /\ rpc = "error" => lastResult' = "Err"]_vars

C17_Witness ==
    /\ C17_NoReceiver
    /\ session = "alive"
    /\ duplexPc = "idle"
    /\ lastResult = "Ok"
    /\ rpc = "closed"
    /\ Len(received) = MaxInbound
    /\ emitted = MaxInbound

\* everything the drive loop received for result channel c has been read and
\* the next recv() gives the end of the stream
C18_AllThenEnd(c) == RecvSeesEnd(c) /\ read[c] = C10_Received(c)

\* C18: the Session loses the result sender it stores only by being discarded
\* or by a further get_streaming_result_receiver call, never by a
\* streaming_recognize that returns; while a live Session stores the sender
\* of a channel, its receiver does not see the end of the stream; and once
\* the sender is gone, a caller that keeps receiving reads every message the
\* loop received for that channel and then sees the end of the stream.
C18_SenderKept ==
    /\ [][(result_sender # 0 /\ result_sender' # result_sender) =>
            \/ session' = "dropped"
            \/ nChans' = nChans + 1]_vars
    /\ [](\A c \in Chans :
            (session = "alive" /\ result_sender = c) => ~RecvSeesEnd(c))
    /\ \A c \in Chans :
            (resRx[c] = "alive" /\ result_sender # c) ~> C18_AllThenEnd(c)

C18_Witness ==
    /\ session = "dropped"
    /\ lastResult = "Ok"
    /\ rpc = "closed"
    /\ resRx[1] = "alive"
    /\ C18_AllThenEnd(1)
    /\ Len(read[1]) = MaxInbound

\* the receiver of the channel the drive loop forwards to has been dropped
C19_ReceiverDropped == result_sender # 0 /\ resRx[result_sender] = "dropped"

\* C19: once the caller has dropped the result receiver, the next message
\* the drive loop reads, or the message it holds in a suspended send, is
\* buffered nowhere: the call returns Err at that message, leaves what the
\* response stream still holds unread, and reads nothing afterwards.
C19_ForwardFails ==
    /\ [][(C19_ReceiverDropped /\ Len(received') > Len(received)) =>
            /\ duplexPc = "loop" /\ duplexPc' = "idle"
            /\ lastResult' = "Err"
            /\ inflight' = Tail(inflight)
            /\ resQ' = resQ]_vars
    /\ [][(C19_ReceiverDropped /\ duplexPc = "fwd" /\ duplexPc' # "fwd") =>
            /\ duplexPc' = "idle"
            /\ lastResult' = "Err"
            /\ inflight' = inflight
            /\ resQ' = resQ]_vars
    /\ [][(duplexPc = "idle" /\ rpcCount = 1) =>
            (received' = received /\ inflight' = inflight)]_vars
    /\ [](\A c \in Chans : resRx[c] = "dropped" => resQ[c] = <<>>)

C19_Witness ==
    /\ C19_ReceiverDropped
    /\ session = "alive"
    /\ duplexPc = "idle"
    /\ lastResult = "Err"
    /\ rpc = "closed"
    /\ received = <<<<1, 1>>>>
    /\ inflight = <<2>>

\* the messages the pull streams have yielded
C20_Messages ==
    LET oks == SelectSeq(yielded, LAMBDA y : y[1] = "Ok")
    IN [i \in 1 .. Len(oks) |-> oks[i][2]]

\* C20: creating a pull stream, and dropping one that was never polled,
\* changes neither the outbound receiver nor the RPC, so a Session on which
\* no RPC was issued still has its receiver and a later streaming_recognize
\* issues the call; a non-empty stream takes the receiver and issues the RPC
\* exactly on its first poll; it yields the inbound messages in receipt
\* order, ends when the response stream has nothing left, with one error as
\* its last item if the RPC was refused or the response stream failed; and
\* once an RPC was issued the Session has no receiver for a later call.
C20_Lazy ==
    /\ [][(streamPc = "none" /\ streamPc' = "created") =>
            UNCHANGED <<audio_receiver, audioQ, rpcCount, rpc, wire>>]_vars
    /\ [][(streamPc = "created" /\ streamPc' = "none") =>
            UNCHANGED <<audio_receiver, audioQ, rpcCount, rpc, wire>>]_vars
    /\ []((session = "alive" /\ rpcCount = 0) => audio_receiver = "session")
    /\ [][(StreamingRecognize /\ rpcCount = 0) =>
            (rpcCount' = 1 /\ duplexPc' = "rpc")]_vars
    /\ [][(borrow = "stream" /\ audio_receiver' # audio_receiver
              /\ audio_receiver = "session") =>
            /\ streamPc = "created" /\ streamPc' = "rpc"
            /\ audio_receiver' = "transport"
            /\ rpcCount' = rpcCount + 1]_vars
    /\ [](\A i \in 1 .. Len(C20_Messages) : C20_Messages[i] = i)
    /\ [](\A i \in 1 .. Len(yielded) : yielded[i] = YieldErr => i = Len(yielded))
    /\ [][(streamPc = "loop" /\ streamPc' = "ended") =>
            /\ inflight = <<>>
            /\ Len(C20_Messages) = emitted
            /\ rpc = "closed" => yielded' = yielded
            /\ rpc = "error" => yielded' = Append(yielded, YieldErr)]_vars
    /\ [][(streamPc = "rpc" /\ streamPc' = "ended") =>
            yielded' = <<YieldErr>>]_vars
    /\ [](rpcCount <= 1 /\ (rpcCount = 1 => audio_receiver # "session"))

C20_Witness ==
    /\ droppedUnpolled
    /\ streamPc = "none"
    /\ yielded = <<>>
    /\ rpcCount = 1
    /\ duplexPc = "loop"
    /\ Len(received) = MaxInbound

\* the producer handle slots after take_audio_sink has filled the first free
\* slot and the caller has dropped that handle again
C21_TakeThenDrop ==
    IF audio_sender /\ \E h \in Handles : handles[h] = "free"
    THEN [[handles EXCEPT ![FreeHandle] = "held"] EXCEPT ![FreeHandle] = "free"]
    ELSE handles

\* what a drop_audio_sink call does: what take_audio_sink does to the
\* Session followed by the drop of the handle it returned, and nothing else
C21_Effect ==
    /\ audio_sender' = SenderAfterTake(audio_sender)
    /\ ~audio_sender'
    /\ handles' = C21_TakeThenDrop
    /\ UNCHANGED <<audio_receiver, result_sender>>
    /\ UNCHANGED <<audioQ, pending, waiters, rejected, nextData, sent>>
    /\ UNCHANGED <<sessVars, netVars, driveVars, resVars, pullVars>>

\* the Session has given up its own sender
C21_Dropped == session = "alive" /\ ~audio_sender

\* C21: drop_audio_sink can be called whenever the caller holds the Session
\* and always does what take_audio_sink followed by the drop of the returned
\* handle does: the Session stores no sender and nothing else changes, so a
\* call that finds no sender changes nothing. Afterwards the Session never
\* stores a sender again, get_audio_sink and take_audio_sink hand out
\* nothing, a send on a clone handed out earlier does not fail while the
\* receiver is alive, and the request stream ends exactly when the channel is
\* empty and no clone is held.
C21_DropAudioSink ==
    /\ [](Callable => ENABLED DropAudioSink)
    /\ [](~ENABLED (DropAudioSink /\ ~C21_Effect))
    /\ [](C21_Dropped => ~ENABLED (DropAudioSink /\ ~UNCHANGED vars))
    /\ [](C21_Dropped => ~ENABLED (GetAudioSink /\ ~UNCHANGED vars))
    /\ [](C21_Dropped => ~ENABLED (TakeAudioSink /\ ~UNCHANGED vars))
    /\ [][C21_Dropped =>
            (~audio_sender' /\ C11_Held(handles') \subseteq C11_Held(handles))]_vars
    /\ [][(C21_Dropped /\ ReceiverAlive) => rejected' = rejected]_vars
    /\ [](C21_Dropped =>
            (ENABLED TransportEoi <=>
                (CallAlive /\ audioQ = <<>> /\ ~eoi /\ NoHandleHeld)))
    /\ [](eoi => (~audio_sender /\ NoHandleHeld))

C21_Witness ==
    /\ C21_Dropped
    /\ duplexPc = "loop"
    /\ handles[1] = "held"
    /\ wire = <<Config, DataItem(1, 1)>>
    /\ sent = <<DataItem(1, 1)>>
    /\ audioQ = <<>>
    /\ ~eoi

====
